---- MODULE Spec2Model ----
(***************************************************************************)
(* A model of src/app.py, the attendance autograder: the Google Forms      *)
(* table built by AttendanceForm.get_attendance, the filters               *)
(* filter_by_day and filter_by_passphrase, convert_numeric_cols,           *)
(* identify_assistance_need, CanvasCourse.canvas_upload and main.          *)
(*                                                                         *)
(* A string is a sequence of one-character strings, so that strip, lower,  *)
(* split, "in", endswith and the regular expression of clean_column_index  *)
(* are computed.  A DataFrame is a record [cols, idx, rows]: the column    *)
(* labels, the index labels, and one sequence of cells per row.            *)
(***************************************************************************)
EXTENDS Integers, Sequences, FiniteSets, TLC

VARIABLES
  pandas,     \* the release of pandas the run is installed with
  token,      \* the state of the file token.json
  pc,         \* the statement of main that runs next, "done" or "failed"
  argv,       \* the command line: keyphrase, date, ass_id as typed (or None)
  args,       \* the Namespace of parsing_args
  keyphrase,  \* main's keyphrase: args.keyphrase stripped and lower-cased
  reply,      \* the forms provider's reply to responses().list
  body,       \* the items of the form body: questionId and title
  roster,     \* the profiles of the students of the course
  df_in,      \* the table the last step of the pipeline was given
  df,         \* attend_df
  report,     \* the means written to the report file
  support,    \* support_df
  pending,    \* the rows DataFrame.apply has still to hand to set_score
  calls,      \* the calls made to the two providers, in order
  scores,     \* the set_score calls, in order
  err         \* the exception that ended the run, or "none"

vars == <<pandas, token, pc, argv, args, keyphrase, reply, body, roster, df_in, df, report,
          support, pending, calls, scores, err>>

(***************************************************************************)
(* Bounds of the model.                                                    *)
(***************************************************************************)
\* rows of a table drawn as input of one function
MaxRows == 3
\* responses in a reply of the forms provider
MaxResponses == 2
\* students of the course
MaxRoster == 2
\* rows of a table given to convert_numeric_cols on its own
MaxAssistRows == 2
\* rows of a table given to filter_by_passphrase on its own
MaxPassRows == 2
\* sub-second steps per second of a timestamp (pandas keeps nanoseconds): with
\* three or more, step 1 lies strictly inside its second, between the first
\* instant (step 0) and the last (step Sub - 1)
Sub == 3

(***************************************************************************)
(* What the run finds installed (src/app.py 6) and on disk (43-44).        *)
(***************************************************************************)
\* the releases of pandas between which the program behaves differently:
\* before 1.5, from 1.5 up to 2.0, and from 2.0 on
PandasVersions == {"1.4", "1.5", "2.0"}
\* DataFrame.apply on a frame without rows tries the function on a row filled
\* with NaN under the labels of the columns (before 1.5: on an empty row)
TriesFilledRow(version) == version # "1.4"
\* a slice by strings of an index that is not monotonic is refused when one
\* of its bounds is not a label of the index (before 2.0: a warning)
RefusesUnsortedSlice(version) == version = "2.0"

\* token.json: credentials that are valid, expired with a refresh token,
\* invalid without one, or no file
TokenStates == {"valid", "expired", "invalid", "absent"}

(***************************************************************************)
(* Cells.                                                                  *)
(***************************************************************************)
Str(s) == [k |-> "str", s |-> s]
NaN == [k |-> "nan"]
RECURSIVE Number(_, _)
\* the number n * 10^e, written with the least mantissa: 10 is Number(1, 1)
Number(n, e) ==
  IF n = 0 THEN [k |-> "num", n |-> 0, e |-> 0]
  ELSE IF (IF n < 0 THEN 0 - n ELSE n) % 10 = 0 THEN Number(n \div 10, e + 1)
  ELSE [k |-> "num", n |-> n, e |-> e]
Num(n) == Number(n, 0)
\* float("inf") and float("-inf")
Inf(neg) == [k |-> "inf", neg |-> neg]
\* an RFC 3339 timestamp of the forms provider: day, second of the day, fraction
Time(d, s, f) == [k |-> "time", day |-> d, sec |-> s, tick |-> f]

IsStr(c) == c.k = "str"
IsNaN(c) == c.k = "nan"
IsNum(c) == c.k \in {"num", "inf"}
IsTime(c) == c.k = "time"

(***************************************************************************)
(* Sequences.                                                              *)
(***************************************************************************)
Range(s) == {s[i] : i \in 1..Len(s)}

RECURSIVE SelectIdx(_, _)
\* the positions of 1..n (ascending) that are in the set keep
SelectIdx(n, keep) ==
  IF n = 0 THEN <<>>
  ELSE IF n \in keep THEN Append(SelectIdx(n - 1, keep), n)
       ELSE SelectIdx(n - 1, keep)

\* s restricted to the positions in keep, in the order of s
Pick(s, keep) ==
  LET ix == SelectIdx(Len(s), keep) IN [i \in 1..Len(ix) |-> s[ix[i]]]

\* the sequences over S of length at most n
SeqUpTo(S, n) == UNION {[1..m -> S] : m \in 0..n}

Permutation(n) == {p \in [1..n -> 1..n] : \A i, j \in 1..n : p[i] = p[j] => i = j}

(***************************************************************************)
(* DataFrame.                                                              *)
(***************************************************************************)
NRows(t) == Len(t.rows)
HasCol(t, name) == \E j \in 1..Len(t.cols) : t.cols[j] = name
\* position of the column labelled name
ColPos(t, name) == CHOOSE j \in 1..Len(t.cols) : t.cols[j] = name
Cell(t, i, name) == t.rows[i][ColPos(t, name)]
\* df[mask]: the rows whose position is in keep
TakeRows(t, keep) ==
  [cols |-> t.cols, idx |-> Pick(t.idx, keep), rows |-> Pick(t.rows, keep)]
\* the rows in the order p
Reorder(t, p) ==
  [cols |-> t.cols,
   idx |-> [i \in 1..NRows(t) |-> t.idx[p[i]]],
   rows |-> [i \in 1..NRows(t) |-> t.rows[p[i]]]]

Ok(t) == [err |-> "none", df |-> t]
Raise(e) == [err |-> e, df |-> <<>>]

(***************************************************************************)
(* Strings of the program.                                                 *)
(***************************************************************************)
responseId == <<"r","e","s","p","o","n","s","e","I","d">>
createTime == <<"c","r","e","a","t","e","T","i","m","e">>
lastSubmittedTime ==
  <<"l","a","s","t","S","u","b","m","i","t","t","e","d","T","i","m","e">>
respondentEmail ==
  <<"r","e","s","p","o","n","d","e","n","t","E","m","a","i","l">>

(***************************************************************************)
(* filter_by_day (src/app.py 145-147).                                     *)
(***************************************************************************)
\* 19:00:00 and 20:00:00 as seconds of the day
WindowStartSec == 68400
WindowEndSec == 72000
SecondsPerDay == 86400
\* NaT, the index label of a missing timestamp
NaT == -1

\* a timestamp as a point of the time line
Ticks(d, s, f) == (d * SecondsPerDay + s) * Sub + f

\* pd.DatetimeIndex(column): a timestamp is parsed, a missing value is NaT,
\* any other string has no parse
Parseable(c) == IsTime(c) \/ IsNaN(c)
ToDatetime(c) == IF IsTime(c) THEN Ticks(c.day, c.sec, c.tick) ELSE NaT

\* a slice bound given as a string with a resolution of one second stands for
\* the whole second: its first instant on the left, its last on the right
LowerBound(date) == Ticks(date.day, WindowStartSec, 0)
UpperBound(date) == Ticks(date.day, WindowEndSec + 1, 0) - 1

\* NaT sorts last
Before(a, b) == IF b = NaT THEN TRUE ELSE IF a = NaT THEN FALSE ELSE a <= b
IsMonotonic(ix) ==
  \A i \in 1..Len(ix) : ix[i] # NaT /\ (i < Len(ix) => ix[i] <= ix[i + 1])

\* sort_index left out: the rows stay as they are
sort_index_unsorted(t) == {t}
\* DataFrame.sort_index: a monotonic index is left as it is; otherwise the rows
\* are sorted by a sort that is not stable, so equal labels come in any order
sort_index(t) ==
  IF IsMonotonic(t.idx) THEN {t}
  ELSE {Reorder(t, p) : p \in
         {q \in Permutation(NRows(t)) :
            \A i \in 1..(NRows(t) - 1) : Before(t.idx[q[i]], t.idx[q[i + 1]])}}

\* .loc[lower:upper] on a sorted DatetimeIndex
InSlice(x, date) == x # NaT /\ LowerBound(date) <= x /\ x <= UpperBound(date)
LocSlice(t, date) == TakeRows(t, {i \in 1..NRows(t) : InSlice(t.idx[i], date)})

\* the outcomes of filter_by_day(df, date) under a release of pandas
filter_by_day(t, date, version) ==
  IF ~HasCol(t, lastSubmittedTime) THEN {Raise("KeyError")}
  ELSE IF \E i \in 1..NRows(t) : ~Parseable(Cell(t, i, lastSubmittedTime))
  THEN {Raise("DateParseError")}
  ELSE LET indexed == [t EXCEPT !.idx =
                         [i \in 1..NRows(t) |-> ToDatetime(Cell(t, i, lastSubmittedTime))]]
       IN IF date.k # "ok" THEN {Raise("InvalidSliceBound")}
          \* an index holding NaT is not monotonic: the slice is taken by
          \* comparison, and refused by the releases from 2.0 on unless both
          \* bounds are labels of the index
          ELSE IF /\ \E i \in 1..NRows(t) : indexed.idx[i] = NaT
                  /\ RefusesUnsortedSlice(version)
                  /\ ~({LowerBound(date), UpperBound(date)} \subseteq Range(indexed.idx))
          THEN {Raise("KeyError")}
          ELSE {Ok(LocSlice(s, date)) : s \in sort_index(indexed)}

(***************************************************************************)
(* Strings (str methods and re of the standard library).                   *)
(***************************************************************************)
EndsWith(x, suf) ==
  Len(x) >= Len(suf) /\ SubSeq(x, Len(x) - Len(suf) + 1, Len(x)) = suf
\* sub in x
Contains(x, sub) ==
  \E i \in 1..(Len(x) - Len(sub) + 1) : SubSeq(x, i, i + Len(sub) - 1) = sub
Underscores(x) == {i \in 1..Len(x) : x[i] = "_"}
Min(S) == CHOOSE m \in S : \A n \in S : m <= n
Max(S) == CHOOSE m \in S : \A n \in S : n <= m
\* re.findall(r"_[^_]*_", x) is empty unless x holds two underscores
HasIdGroup(x) == Cardinality(Underscores(x)) >= 2
\* re.findall(r"_[^_]*_", x)[0].replace("_", ""): what stands between the first
\* underscore of x and the next one
IdGroup(x) ==
  LET i == Min(Underscores(x))
      j == Min({u \in Underscores(x) : u > i})
  IN SubSeq(x, i + 1, j - 1)

questionId == <<"q","u","e","s","t","i","o","n","I","d">>
\* the keys that flatten() gives the answer n of the question qid:
\* answers_<qid>_questionId and answers_<qid>_textAnswers_answers_<n>_value
IdKey(qid) == <<"a","n","s","w","e","r","s","_">> \o qid \o <<"_">> \o questionId
ValueKey(qid, n) ==
  <<"a","n","s","w","e","r","s","_">> \o qid \o
  <<"_","t","e","x","t","A","n","s","w","e","r","s","_","a","n","s","w","e","r","s","_">>
  \o <<n>> \o <<"_","v","a","l","u","e">>

(***************************************************************************)
(* AttendanceForm (src/app.py 64-105).  A flattened response is a sequence *)
(* of <<key, value>> pairs, in the order of the provider's document.       *)
(***************************************************************************)
Keys(r) == [i \in 1..Len(r) |-> r[i][1]]
HasKey(r, key) == \E i \in 1..Len(r) : r[i][1] = key
Lookup(r, key) == r[CHOOSE i \in 1..Len(r) : r[i][1] = key][2]

RECURSIVE AddNew(_, _)
\* acc followed by the elements of s that are not yet in it
AddNew(acc, s) ==
  IF s = <<>> THEN acc
  ELSE AddNew(IF Head(s) \in Range(acc) THEN acc ELSE Append(acc, Head(s)), Tail(s))

RECURSIVE UnionKeys(_)
\* the keys of the responses, each once, in the order of first appearance
UnionKeys(rs) ==
  IF rs = <<>> THEN <<>>
  ELSE AddNew(UnionKeys(SubSeq(rs, 1, Len(rs) - 1)), Keys(rs[Len(rs)]))

\* pd.DataFrame.from_dict(list of dicts): a key a response lacks is NaN
from_dict(rs) ==
  LET cols == UnionKeys(rs) IN
  [cols |-> cols,
   idx |-> [i \in 1..Len(rs) |-> i - 1],
   rows |-> [i \in 1..Len(rs) |->
              [j \in 1..Len(cols) |->
                 IF HasKey(rs[i], cols[j]) THEN Lookup(rs[i], cols[j]) ELSE NaN]]]

\* df.drop(columns=names): every column carrying one of the labels goes
DropCols(t, names) ==
  LET keep == {j \in 1..Len(t.cols) : t.cols[j] \notin names} IN
  [cols |-> Pick(t.cols, keep),
   idx |-> t.idx,
   rows |-> [i \in 1..NRows(t) |-> Pick(t.rows[i], keep)]]

\* get_question_ids: the dict questionId -> title of the form body; of two items
\* with one questionId the later wins
get_question_ids(items) ==
  [q \in {items[i].questionId : i \in 1..Len(items)} |->
     items[Max({i \in 1..Len(items) : items[i].questionId = q})].title]

\* df.columns.tolist()[:4]
MetaCount == 4
FirstCols(cols) == SubSeq(cols, 1, IF Len(cols) < MetaCount THEN Len(cols) ELSE MetaCount)

\* the columns that stay: those whose label does not end with questionId
KeptCols(cols) == {j \in 1..Len(cols) : ~EndsWith(cols[j], questionId)}

\* clean_column_index(df): [err, df, keys]
clean_column_index(t) ==
  LET d == DropCols(t, {t.cols[j] : j \in (1..Len(t.cols)) \ KeptCols(t.cols)})
      with_id == Pick(d.cols, {j \in 1..Len(d.cols) : "_" \in Range(d.cols[j])})
  IN IF \E j \in 1..Len(with_id) : ~HasIdGroup(with_id[j])
     THEN [err |-> "IndexError", df |-> <<>>, keys |-> <<>>]
     ELSE LET col_keys == [j \in 1..Len(with_id) |-> IdGroup(with_id[j])]
              labels == FirstCols(d.cols) \o col_keys
          IN IF Len(labels) # Len(d.cols)
             THEN [err |-> "ValueError", df |-> <<>>, keys |-> <<>>]
             ELSE [err |-> "none", df |-> [d EXCEPT !.cols = labels], keys |-> col_keys]

\* the calls get_attendance makes to the forms provider: the responses are
\* asked for first, the form body once clean_column_index has returned
get_attendance_calls(r) ==
  IF r.present /\ clean_column_index(from_dict(r.list)).err = "none"
  THEN <<"forms.responses.list", "forms.get">>
  ELSE <<"forms.responses.list">>

\* get_form_responses: the reply of the provider holds the list under "responses"
\* get_attendance() given the reply r and the form body items: Ok(df) or Raise(error)
get_attendance(r, items) ==
  IF ~r.present THEN Raise("KeyError")
  ELSE LET c == clean_column_index(from_dict(r.list)) IN
       IF c.err # "none" THEN Raise(c.err)
       ELSE LET titles == get_question_ids(items)
                dropcols == {c.keys[j] : j \in 1..Len(c.keys)} \ DOMAIN titles
                d == DropCols(c.df, dropcols)
            IN Ok([d EXCEPT !.cols =
                    [j \in 1..Len(d.cols) |->
                       IF d.cols[j] \in DOMAIN titles THEN titles[d.cols[j]]
                       ELSE d.cols[j]]])

(***************************************************************************)
(* str.strip, str.lower, str.split, sorted and " ".join.                   *)
(***************************************************************************)
UpperCase == <<"A","B","C","D","E","F","G","H","I","J","K","L","M",
               "N","O","P","Q","R","S","T","U","V","W","X","Y","Z">>
LowerCase == <<"a","b","c","d","e","f","g","h","i","j","k","l","m",
               "n","o","p","q","r","s","t","u","v","w","x","y","z">>
Digits == <<"0","1","2","3","4","5","6","7","8","9">>
Whitespace == {" "}
\* the characters in the order of their code points (those the model uses)
CodeOrder == <<" ", "!", "+", "-", ".", "/">> \o Digits \o <<"?", "@">> \o UpperCase \o <<"_">> \o LowerCase
Code(c) == CHOOSE i \in 1..Len(CodeOrder) : CodeOrder[i] = c

LowerChar(c) ==
  IF c \in Range(UpperCase)
  THEN LowerCase[CHOOSE i \in 1..Len(UpperCase) : UpperCase[i] = c]
  ELSE c
lower(s) == [i \in 1..Len(s) |-> LowerChar(s[i])]

strip(s) ==
  LET solid == {i \in 1..Len(s) : s[i] \notin Whitespace} IN
  IF solid = {} THEN <<>> ELSE SubSeq(s, Min(solid), Max(solid))

RECURSIVE split(_)
\* s.split(): the maximal runs of characters that are not whitespace
split(s) ==
  LET t == strip(s) IN
  IF t = <<>> THEN <<>>
  ELSE LET gaps == {i \in 1..Len(t) : t[i] \in Whitespace} IN
       IF gaps = {} THEN <<t>>
       ELSE <<SubSeq(t, 1, Min(gaps) - 1)>> \o split(SubSeq(t, Min(gaps) + 1, Len(t)))

\* a < b in the order of str
StrLess(a, b) ==
  \E i \in 1..(Len(b)) :
     /\ \A j \in 1..(i - 1) : j <= Len(a) /\ a[j] = b[j]
     /\ (i > Len(a) \/ Code(a[i]) < Code(b[i]))
     /\ (i > Len(a) => i = Len(a) + 1)

RECURSIVE sorted(_)
\* the elements of the set of strings S, ascending
sorted(S) ==
  IF S = {} THEN <<>>
  ELSE LET m == CHOOSE x \in S : \A y \in S \ {x} : StrLess(x, y)
       IN <<m>> \o sorted(S \ {m})

RECURSIVE join(_)
\* " ".join(tokens)
join(tokens) ==
  IF tokens = <<>> THEN <<>>
  ELSE IF Len(tokens) = 1 THEN tokens[1]
  ELSE tokens[1] \o <<" ">> \o join(Tail(tokens))

(***************************************************************************)
(* thefuzz.fuzz.partial_token_set_ratio, called at src/app.py 156.         *)
(***************************************************************************)
IsAlnum(c) == c \in Range(UpperCase) \cup Range(LowerCase) \cup Range(Digits)
\* thefuzz.utils.full_process: what is not a letter or a digit becomes a
\* blank, the rest is lower-cased and stripped
full_process(s) ==
  strip(lower([i \in 1..Len(s) |-> IF IsAlnum(s[i]) THEN s[i] ELSE " "]))

RECURSIVE LcsRow(_, _, _, _)
\* the next row of the table of the longest common subsequence: acc holds its
\* entries for the prefixes of b of length 0..Len(acc)-1
LcsRow(prev, c, b, acc) ==
  IF Len(acc) = Len(b) + 1 THEN acc
  ELSE LET j == Len(acc) IN
       LcsRow(prev, c, b,
              Append(acc, IF b[j] = c THEN prev[j] + 1
                          ELSE Max({prev[j + 1], acc[j]})))

RECURSIVE LcsRows(_, _, _)
\* the row of the table after the first i characters of a
LcsRows(a, b, i) ==
  IF i = 0 THEN [j \in 1..(Len(b) + 1) |-> 0]
  ELSE LcsRow(LcsRows(a, b, i - 1), a[i], b, <<0>>)

\* the length of the longest common subsequence of a and b
LCS(a, b) == LcsRows(a, b, Len(a))[Len(b) + 1]

\* int(round(100 * num / den)), round() taking a half to the even integer
RoundPercent(num, den) ==
  LET q == (100 * num) \div den
      r == (100 * num) % den
  IN IF 2 * r < den THEN q
     ELSE IF 2 * r > den THEN q + 1
     ELSE IF q % 2 = 0 THEN q ELSE q + 1

\* rapidfuzz.fuzz.ratio as a percentage: the normalised Indel similarity
ratio(a, b) ==
  IF Len(a) + Len(b) = 0 THEN 100 ELSE RoundPercent(2 * LCS(a, b), Len(a) + Len(b))

\* the windows of longer that partial_ratio aligns shorter with: the prefixes
\* and suffixes shorter than shorter, and every run of its length
Windows(n, longer) ==
  {SubSeq(longer, 1, i) : i \in 1..(n - 1)}
    \cup {SubSeq(longer, i, i + n - 1) : i \in 1..(Len(longer) - n + 1)}
    \cup {SubSeq(longer, i, Len(longer)) : i \in (Len(longer) - n + 2)..Len(longer)}

PartialRatioImpl(shorter, longer) ==
  Max({0} \cup {ratio(shorter, w) : w \in Windows(Len(shorter), longer)})

\* rapidfuzz.fuzz.partial_ratio
partial_ratio(a, b) ==
  IF Len(a) = 0 /\ Len(b) = 0 THEN 100
  ELSE IF Len(a) = 0 \/ Len(b) = 0 THEN 0
  ELSE IF Len(a) < Len(b) THEN PartialRatioImpl(a, b)
  ELSE IF Len(b) < Len(a) THEN PartialRatioImpl(b, a)
  ELSE Max({PartialRatioImpl(a, b), PartialRatioImpl(b, a)})

\* fuzz.partial_token_set_ratio(s1, s2)
partial_token_set_ratio(s1, s2) ==
  LET tokens_a == Range(split(full_process(s1)))
      tokens_b == Range(split(full_process(s2)))
  IN IF tokens_a = {} \/ tokens_b = {} THEN 0
     ELSE IF tokens_a \cap tokens_b # {} THEN 100
     ELSE partial_ratio(join(sorted(tokens_a \ tokens_b)),
                        join(sorted(tokens_b \ tokens_a)))

(***************************************************************************)
(* filter_by_passphrase (src/app.py 150-160).                              *)
(***************************************************************************)
FUZZ_THRESHOLD == 70
\* "What is the Concept of the Day?"
ckey ==
  <<"W","h","a","t"," ","i","s"," ","t","h","e"," ","C","o","n","c","e","p","t",
    " ","o","f"," ","t","h","e"," ","D","a","y","?">>

\* x.strip().lower()
Normalize(s) == lower(strip(s))

\* > in place of >=: a score equal to the threshold is dropped
PassesThresholdStrict(answer, passphrase) ==
  partial_token_set_ratio(answer, passphrase) > FUZZ_THRESHOLD
\* the test of one row
PassesThreshold(answer, passphrase) ==
  partial_token_set_ratio(answer, passphrase) >= FUZZ_THRESHOLD

\* the positions of the columns labelled ckey
ConceptCols(t) == {j \in 1..Len(t.cols) : t.cols[j] = ckey}
\* a frame without columns and without rows
EmptyTable == [cols |-> <<>>, idx |-> <<>>, rows |-> <<>>]

\* the outcomes of filter_by_passphrase(df, passphrase) under a release of pandas
filter_by_passphrase(t, passphrase, version) ==
  IF ~HasCol(t, ckey) THEN {Raise("KeyError")}
  ELSE IF Cardinality(ConceptCols(t)) > 1
  \* df[ckey] is a frame: map runs over its labels, and the list of them is
  \* assigned to every column of that label when it is as long as the index;
  \* each row is then scored by the text pandas prints for its cells, which
  \* is not computed here: any subset of the rows may stay
  THEN IF Cardinality(ConceptCols(t)) # NRows(t) THEN {Raise("ValueError")}
       ELSE LET n == [t EXCEPT !.rows =
                       [i \in 1..NRows(t) |->
                          [j \in 1..Len(t.cols) |->
                             IF j \in ConceptCols(t) THEN Str(Normalize(ckey))
                             ELSE t.rows[i][j]]]]
            IN {Ok(TakeRows(n, keep)) : keep \in SUBSET (1..NRows(t))}
  ELSE IF \E i \in 1..NRows(t) : ~IsStr(Cell(t, i, ckey)) THEN {Raise("AttributeError")}
  \* no row: apply tries the lambda on a row of its own making.  On a row
  \* filled with NaN the lambda gives a bool, apply answers with an empty
  \* Series of floats, and df[that Series] selects no column.  On an empty
  \* row the lambda raises, apply answers with the frame, and df[frame] keeps
  \* the columns.
  ELSE IF NRows(t) = 0
  THEN {Ok(IF TriesFilledRow(version) THEN EmptyTable ELSE t)}
  ELSE LET c == ColPos(t, ckey)
           n == [t EXCEPT !.rows =
                   [i \in 1..NRows(t) |->
                      [t.rows[i] EXCEPT ![c] = Str(Normalize(t.rows[i][c].s))]]]
       IN {Ok(TakeRows(n, {i \in 1..NRows(n) : PassesThreshold(n.rows[i][c].s, passphrase)}))}

(***************************************************************************)
(* convert_numeric_cols and identify_assistance_need (src/app.py 163-177). *)
(***************************************************************************)
Help == <<"H","e","l","p">>
Understanding == <<"U","n","d","e","r","s","t","a","n","d","i","n","g">>
Speed == <<"S","p","e","e","d">>
hours == <<"h","o","u","r","s">>

\* the positions of the columns whose label contains one of the words
MatchingCols(t, matches) ==
  {j \in 1..Len(t.cols) : \E w \in matches : Contains(t.cols[j], w)}

RECURSIVE DecimalValue(_)
\* the value of a string of digits
DecimalValue(s) ==
  IF s = <<>> THEN 0
  ELSE 10 * DecimalValue(SubSeq(s, 1, Len(s) - 1)) + (Code(s[Len(s)]) - Code("0"))

IsDigits(s) == \A i \in 1..Len(s) : s[i] \in Range(Digits)
Negative(s) == s # <<>> /\ s[1] = "-"
\* s without its sign
Unsigned(s) == IF s # <<>> /\ s[1] \in {"+", "-"} THEN Tail(s) ELSE s

\* the parser of decimal literals that to_numeric uses: blanks around the
\* literal are skipped; a sign, digits with at most one point among them and at
\* least one digit, then an exponent (e or E, a sign, digits) may follow
ParseFloat(s) ==
  LET t == strip(s)
      u == Unsigned(t)
      es == {i \in 1..Len(u) : u[i] \in {"e", "E"}}
      mant == IF es = {} THEN u ELSE SubSeq(u, 1, Min(es) - 1)
      expo == IF es = {} THEN <<>> ELSE SubSeq(u, Min(es) + 1, Len(u))
      dots == {i \in 1..Len(mant) : mant[i] = "."}
      whole == IF dots = {} THEN mant ELSE SubSeq(mant, 1, Min(dots) - 1)
      frac == IF dots = {} THEN <<>> ELSE SubSeq(mant, Min(dots) + 1, Len(mant))
      ok == /\ IsDigits(whole) /\ IsDigits(frac) /\ Len(whole) + Len(frac) > 0
            /\ es # {} => (Unsigned(expo) # <<>> /\ IsDigits(Unsigned(expo)))
      m == DecimalValue(whole \o frac)
      x == IF Negative(expo) THEN 0 - DecimalValue(Unsigned(expo))
           ELSE DecimalValue(Unsigned(expo))
  IN IF ok THEN [ok |-> TRUE, n |-> IF Negative(t) THEN 0 - m ELSE m, e |-> x - Len(frac)]
     ELSE [ok |-> FALSE, n |-> 0, e |-> 0]

\* the spellings of infinity, compared without regard to case
PlusInf ==
  {<<"i","n","f">>, <<"+","i","n","f">>, <<"i","n","f","i","n","i","t","y">>,
   <<"+","i","n","f","i","n","i","t","y">>}
MinusInf == {<<"-","i","n","f">>, <<"-","i","n","f","i","n","i","t","y">>}

\* pd.to_numeric(errors="coerce") of one cell: a number stays, a string that
\* is a decimal literal or spells infinity is its value, a missing value or any
\* other string is NaN
to_numeric(c) ==
  IF IsNum(c) THEN c
  ELSE IF ~IsStr(c) THEN NaN
  ELSE IF ParseFloat(c.s).ok THEN Number(ParseFloat(c.s).n, ParseFloat(c.s).e)
  ELSE IF lower(c.s) \in PlusInf THEN Inf(FALSE)
  ELSE IF lower(c.s) \in MinusInf THEN Inf(TRUE)
  ELSE NaN

\* convert_numeric_cols(df): the outcomes, each Ok(df) or Raise(error)
ConvertMatches == {hours, Help, Understanding, Speed}
convert_numeric_cols(t) ==
  LET num_cols == MatchingCols(t, ConvertMatches) IN
  \* no column: df.columns[...] is indexed by an empty Series of objects, which
  \* is refused or taken as an empty selection
  IF t.cols = <<>> THEN {Raise("IndexError"), Ok(t)}
  \* two matching columns under one label: df[num_cols] holds each of them
  \* twice, and the assignment to df[num_cols] is refused
  ELSE IF \E a, b \in num_cols : a # b /\ t.cols[a] = t.cols[b]
  THEN {Raise("ValueError")}
  ELSE {Ok([t EXCEPT !.rows =
              [i \in 1..NRows(t) |->
                 [j \in 1..Len(t.cols) |->
                    IF j \in num_cols THEN to_numeric(t.rows[i][j]) ELSE t.rows[i][j]]]])}

RECURSIVE Pow10(_)
Pow10(k) == IF k = 0 THEN 1 ELSE 10 * Pow10(k - 1)
\* the most decimal digits a mantissa has
MaxDigits == 9
\* the number of the cell c is below the whole number m >= 1
ValueBelow(c, m) ==
  IF c.k = "inf" THEN c.neg
  ELSE IF c.n <= 0 THEN TRUE
  ELSE IF c.e >= 0
  THEN c.e <= MaxDigits /\ c.n <= (m - 1) \div Pow10(c.e)
  ELSE (0 - c.e) >= MaxDigits \/ c.n < m * Pow10(0 - c.e)

HelpThreshold == 2
\* le in place of lt: a rating of 2 is flagged
LessOrEqual(c) == IsNum(c) /\ (ValueBelow(c, HelpThreshold) \/ c = Num(HelpThreshold))
\* DataFrame.lt(2) of one cell; a missing value compares False
LessThan(c) == IsNum(c) /\ ValueBelow(c, HelpThreshold)

\* identify_assistance_need(df): the outcomes, each Ok(df) or Raise(error)
AssistMatches == {Help, Understanding, Speed}
identify_assistance_need(t) ==
  LET num_cols == MatchingCols(t, AssistMatches)
      flagged == TakeRows(t, {i \in 1..NRows(t) : \E j \in num_cols : LessThan(t.rows[i][j])})
  IN IF t.cols = <<>> THEN {Raise("IndexError"), Ok(t)}
     ELSE IF \E i \in 1..NRows(t) : \E j \in num_cols : IsStr(t.rows[i][j])
     THEN {Raise("TypeError")}
     ELSE {Ok(flagged)}

(***************************************************************************)
(* The report of main (src/app.py 214): the mean of every numeric column,  *)
(* kept as the sum and the count of its values that are not missing.       *)
(***************************************************************************)
\* the sum of two floats
Add(a, b) ==
  IF a.k = "nan" \/ b.k = "nan" THEN NaN
  ELSE IF a.k = "inf" \/ b.k = "inf"
  THEN IF a.k = "inf" /\ b.k = "inf" /\ a.neg # b.neg THEN NaN
       ELSE IF a.k = "inf" THEN a ELSE b
  ELSE LET e == IF a.e < b.e THEN a.e ELSE b.e
       IN Number(a.n * Pow10(a.e - e) + b.n * Pow10(b.e - e), e)

RECURSIVE SumCells(_)
\* the sum of the numbers among the cells
SumCells(cells) ==
  IF cells = <<>> THEN Num(0)
  ELSE IF IsNum(Head(cells)) THEN Add(Head(cells), SumCells(Tail(cells)))
  ELSE SumCells(Tail(cells))

\* select_dtypes("number"): after convert_numeric_cols the converted columns of
\* a table with rows are numeric; a table without rows keeps its object columns
NumericCols(t) == IF NRows(t) = 0 THEN {} ELSE MatchingCols(t, ConvertMatches)

mean_report(t) ==
  LET nc == SelectIdx(Len(t.cols), NumericCols(t)) IN
  [m \in 1..Len(nc) |->
     [col |-> t.cols[nc[m]],
      sum |-> SumCells([i \in 1..NRows(t) |-> t.rows[i][nc[m]]]),
      count |-> Cardinality({i \in 1..NRows(t) : IsNum(t.rows[i][nc[m]])})]]

(***************************************************************************)
(* The inputs of a run.                                                    *)
(***************************************************************************)
None == [k |-> "none"]
NoReply == [present |-> FALSE, list |-> <<>>]

OkDate(d) == [k |-> "ok", day |-> d]
\* the date of the lecture, as a count of days
LectureDate == OkDate(1)
\* a date that has no parse, such as "tomorrow"
BadDate == [k |-> "bad"]

EmailA == <<"a","@","x">>
EmailB == <<"b","@","x">>
EmailUpperA == <<"A","@","x">>

\* question identifiers: the concept of the day, a rating, a time spent, and a
\* question that the form no longer has
QConcept == <<"1","a">>
QHelp == <<"2","b">>
QHours == <<"3","c">>
QOld == <<"4","d">>

\* the flattened keys and values of the answers to one question
AnswerPairs(qid, values) ==
  <<<<IdKey(qid), Str(qid)>>>> \o
    [n \in 1..Len(values) |-> <<ValueKey(qid, Digits[n]), values[n]>>]

RECURSIVE AllAnswers(_)
AllAnswers(ans) ==
  IF ans = <<>> THEN <<>>
  ELSE AnswerPairs(ans[1][1], ans[1][2]) \o AllAnswers(Tail(ans))

\* one flattened response: the four metadata fields, then the answers
Response(rid, ltime, email, ans) ==
  << <<responseId, Str(rid)>>, <<createTime, Time(0, 0, 0)>>,
     <<lastSubmittedTime, ltime>>, <<respondentEmail, Str(email)>> >>
    \o AllAnswers(ans)

Rid(i) == <<"r", Digits[i + 1]>>

MainBody ==
  << [questionId |-> QConcept, title |-> ckey],
     [questionId |-> QHelp, title |-> Help],
     [questionId |-> QHours, title |-> hours] >>

Graphs == <<"g","r","a","p","h","s">>
\* an answer that matches the keyphrase once stripped and lower-cased
GraphsTyped == <<" ","G","r","a","p","h","s"," ">>
Trees == <<"t","r","e","e","s">>

\* window start, an instant inside the second of the window end, the second after it
MainFields ==
  {<<e, t, a, h>> : e \in {EmailA, EmailB},
                    t \in {Time(LectureDate.day, WindowStartSec, 0),
                           Time(LectureDate.day, WindowEndSec, 1),
                           Time(LectureDate.day, WindowEndSec + 1, 0)},
                    a \in {GraphsTyped, Trees},
                    h \in {<<"1">>, <<"3">>}}
MainReplies ==
  {NoReply} \cup
  {[present |-> TRUE,
    list |-> [i \in 1..Len(fs) |->
                Response(Rid(i), fs[i][2], fs[i][1],
                         << <<QConcept, <<Str(fs[i][3])>> >>,
                            <<QHelp, <<Str(fs[i][4])>> >> >>)]]
     : fs \in SeqUpTo(MainFields, MaxResponses)}

Students ==
  {[id |-> Num(1), name |-> Str(<<"A","n","n">>), login_id |-> Str(EmailA)],
   [id |-> Num(2), name |-> Str(<<"B","o","b">>), login_id |-> Str(EmailB)],
   [id |-> Num(3), name |-> Str(<<"A","b","e">>), login_id |-> Str(EmailUpperA)]}
\* login identities are unique in a roster
Rosters ==
  {r \in SeqUpTo(Students, MaxRoster) : \A i, j \in 1..Len(r) : r[i] = r[j] => i = j}

MainArgvs ==
  {[keyphrase |-> kp, date |-> d, ass_id |-> a] :
     kp \in {None, Str(GraphsTyped)},
     d \in {None, BadDate, LectureDate},
     a \in {None, [k |-> "int", n |-> 7], [k |-> "text"]}}

(***************************************************************************)
(* main (src/app.py 198-225), one action per statement.                    *)
(***************************************************************************)
Fail(e) == pc' = "failed" /\ err' = e

\* args = parsing_args(); keyphrase = args.keyphrase.strip().lower()
\* argparse leaves with SystemExit when --ass_id is not an integer
ParsingArgs ==
  /\ pc = "parsing_args"
  /\ IF argv.ass_id.k = "text"
     THEN Fail("SystemExit") /\ UNCHANGED <<args, keyphrase>>
     ELSE /\ args' = argv
          /\ IF argv.keyphrase.k = "none"
             THEN Fail("AttributeError") /\ UNCHANGED keyphrase
             ELSE /\ keyphrase' = Normalize(argv.keyphrase.s)
                  /\ pc' = "CanvasCourse"
                  /\ UNCHANGED err
  /\ UNCHANGED <<pandas, token, argv, reply, body, roster, df_in, df, report,
                 support, pending, calls, scores>>

\* canvas = CanvasCourse(): get_course asks the gradebook for the course
CanvasCourseInit ==
  /\ pc = "CanvasCourse"
  /\ calls' = Append(calls, "canvas.get_course")
  /\ pc' = "AttendanceForm"
  /\ UNCHANGED <<pandas, token, argv, args, keyphrase, reply, body, roster, df_in,
                 df, report, support, pending, scores, err>>

\* the calls of get_forum_API: credentials that are not valid are refreshed
\* when they are expired and hold a refresh token, and asked of the user
\* otherwise; then the service is built
get_forum_API_calls(tok) ==
  IF tok = "valid" THEN <<"forms.build">>
  ELSE IF tok = "expired" THEN <<"google.oauth.refresh", "forms.build">>
  ELSE <<"google.oauth.run_local_server", "forms.build">>

\* attendance_form = AttendanceForm(): get_forum_API reads token.json, writes
\* it when it had to get new credentials, and builds the forms service
AttendanceFormInit ==
  /\ pc = "AttendanceForm"
  /\ calls' = calls \o get_forum_API_calls(token)
  /\ token' = "valid"
  /\ pc' = "get_attendance"
  /\ UNCHANGED <<pandas, argv, args, keyphrase, reply, body, roster, df_in, df,
                 report, support, pending, scores, err>>

\* attend_df = attendance_form.get_attendance()
GetAttendance ==
  /\ pc = "get_attendance"
  /\ \E r \in MainReplies :
       LET out == get_attendance(r, MainBody) IN
       /\ reply' = r
       /\ body' = MainBody
       /\ calls' = calls \o get_attendance_calls(r)
       /\ IF out.err = "none"
          THEN df' = out.df /\ pc' = "filter_by_day" /\ UNCHANGED err
          ELSE Fail(out.err) /\ UNCHANGED df
  /\ UNCHANGED <<pandas, token, argv, args, keyphrase, roster, df_in, report,
                 support, pending, scores>>

\* attend_df = filter_by_day(attend_df, args.date)
FilterByDay ==
  /\ pc = "filter_by_day"
  /\ \E out \in filter_by_day(df, args.date, pandas) :
       /\ df_in' = df
       /\ IF out.err = "none"
          THEN df' = out.df /\ pc' = "filter_by_passphrase" /\ UNCHANGED err
          ELSE Fail(out.err) /\ UNCHANGED df
  /\ UNCHANGED <<pandas, token, argv, args, keyphrase, reply, body, roster,
                 report, support, pending, calls, scores>>

\* attend_df = filter_by_passphrase(attend_df, keyphrase)
FilterByPassphrase ==
  /\ pc = "filter_by_passphrase"
  /\ \E out \in filter_by_passphrase(df, keyphrase, pandas) :
       /\ df_in' = df
       /\ IF out.err = "none"
          THEN df' = out.df /\ pc' = "convert_numeric_cols" /\ UNCHANGED err
          ELSE Fail(out.err) /\ UNCHANGED df
  /\ UNCHANGED <<pandas, token, argv, args, keyphrase, reply, body, roster,
                 report, support, pending, calls, scores>>

\* attend_df = convert_numeric_cols(attend_df)
ConvertNumericCols ==
  /\ pc = "convert_numeric_cols"
  /\ \E out \in convert_numeric_cols(df) :
       /\ df_in' = df
       /\ IF out.err = "none"
          THEN df' = out.df /\ pc' = "report" /\ UNCHANGED err
          ELSE Fail(out.err) /\ UNCHANGED df
  /\ UNCHANGED <<pandas, token, argv, args, keyphrase, reply, body, roster,
                 report, support, pending, calls, scores>>

\* report = attend_df.select_dtypes("number").mean(); report.to_csv(...)
MeanReport ==
  /\ pc = "report"
  /\ report' = mean_report(df)
  /\ pc' = "identify_assistance_need"
  /\ UNCHANGED <<pandas, token, argv, args, keyphrase, reply, body, roster,
                 df_in, df, support, pending, calls, scores, err>>

\* support_df = identify_assistance_need(attend_df); print(support_df[...])
IdentifyAssistanceNeed ==
  /\ pc = "identify_assistance_need"
  /\ \E out \in identify_assistance_need(df) :
       IF out.err # "none" THEN Fail(out.err) /\ UNCHANGED support
       ELSE IF ~HasCol(out.df, respondentEmail) THEN Fail("KeyError") /\ UNCHANGED support
       ELSE support' = out.df /\ pc' = "canvas_upload" /\ UNCHANGED err
  /\ UNCHANGED <<pandas, token, argv, args, keyphrase, reply, body, roster,
                 df_in, df, report, pending, calls, scores>>

(***************************************************************************)
(* CanvasCourse.canvas_upload and set_score (src/app.py 119-137).          *)
(***************************************************************************)
\* Series.isin: login is one of the values of df["respondentEmail"]
isin(login, t) == \E i \in 1..NRows(t) : Cell(t, i, respondentEmail) = login
\* uids[~uids["login_id"].isin(df["respondentEmail"])], in the order of uids
absent_rows(r, t) == Pick(r, {i \in 1..Len(r) : ~isin(r[i].login_id, t)})
\* uids[uids["login_id"].isin(df["respondentEmail"])]
present_rows(r, t) == Pick(r, {i \in 1..Len(r) : isin(r[i].login_id, t)})

\* the row DataFrame.apply makes up to try the function on when the frame has
\* no row: every column NaN, or (before pandas 1.5) no column at all
DummyRow(version) ==
  IF TriesFilledRow(version) THEN [id |-> NaN, name |-> NaN, login_id |-> NaN]
  ELSE [field \in {} |-> NaN]
\* the rows frame.apply(f, axis=1) calls f on, in order
apply_rows(frame, version) == IF frame = <<>> THEN <<DummyRow(version)>> ELSE frame

\* what a call of set_score does on a row of the roster: both gradebook calls
\* succeed, or get_submission raises, or submission.edit raises
SetScoreOutcomes == {"ok", "get_submission", "edit"}
SetScoreCalls(o) ==
  IF o = "get_submission" THEN <<"canvas.get_submission">>
  ELSE <<"canvas.get_submission", "canvas.edit">>

\* the first lines of canvas_upload: the users and their profiles, the
\* assignment, and the rows that are absent
CanvasUpload ==
  /\ pc = "canvas_upload"
  /\ \E r \in Rosters :
       /\ roster' = r
       /\ IF args.ass_id.k = "none"
          THEN /\ calls' = calls \o <<"canvas.get_users">> \o
                             [i \in 1..Len(r) |-> "canvas.get_profile"]
               /\ Fail("TypeError")
               /\ UNCHANGED pending
          ELSE /\ calls' = calls \o <<"canvas.get_users">> \o
                             [i \in 1..Len(r) |-> "canvas.get_profile"] \o
                             <<"canvas.get_assignment">>
               /\ IF r = <<>> \/ ~HasCol(df, respondentEmail)
                  THEN Fail("KeyError") /\ UNCHANGED pending
                  ELSE /\ pending' = apply_rows(absent_rows(r, df), pandas)
                       /\ pc' = "absent"
                       /\ UNCHANGED err
  /\ UNCHANGED <<pandas, token, argv, args, keyphrase, reply, body, df_in, df,
                 report, support, scores>>

\* one call of set_score(x, assignment, score) by DataFrame.apply; on a row of
\* the roster an exception of the gradebook leaves apply, canvas_upload and
\* main.  On a row apply made up, student["name"] raises KeyError, or
\* get_submission refuses an id that is no integer before it asks the
\* gradebook; apply drops either exception
SetScore(score) ==
  /\ pending # <<>>
  /\ LET student == Head(pending) IN
     \* student["name"] raises KeyError
     IF "name" \notin DOMAIN student
     THEN /\ scores' = Append(scores, [login_id |-> NaN, id |-> NaN,
                                       score |-> score, outcome |-> "KeyError"])
          /\ pending' = Tail(pending)
          /\ UNCHANGED <<calls, pc, err>>
     ELSE IF IsNaN(student.id)
     THEN /\ scores' = Append(scores, [login_id |-> student.login_id, id |-> student.id,
                                       score |-> score, outcome |-> "TypeError"])
          /\ pending' = Tail(pending)
          /\ UNCHANGED <<calls, pc, err>>
     ELSE \E o \in SetScoreOutcomes :
            /\ calls' = calls \o SetScoreCalls(o)
            /\ scores' = Append(scores, [login_id |-> student.login_id,
                                         id |-> student.id,
                                         score |-> score, outcome |-> o])
            /\ IF o = "ok"
               THEN pending' = Tail(pending) /\ UNCHANGED <<pc, err>>
               ELSE Fail("CanvasException") /\ UNCHANGED pending
  /\ UNCHANGED <<pandas, token, argv, args, keyphrase, reply, body, roster,
                 df_in, df, report, support>>

\* absent.apply(lambda x: self.set_score(x, assignment, 0), axis=1)
MarkAbsent == pc = "absent" /\ SetScore(0)

\* present = uids[...isin...], once the absent rows are done
StartPresent ==
  /\ pc = "absent"
  /\ pending = <<>>
  /\ pending' = apply_rows(present_rows(roster, df), pandas)
  /\ pc' = "present"
  /\ UNCHANGED <<pandas, token, argv, args, keyphrase, reply, body, roster,
                 df_in, df, report, support, calls, scores, err>>

\* present.apply(lambda x: self.set_score(x, assignment, 1), axis=1)
MarkPresent == pc = "present" /\ SetScore(1)

\* attend_df.to_csv(...), the last statement of main
ToCsv ==
  /\ pc = "present"
  /\ pending = <<>>
  /\ pc' = "done"
  /\ UNCHANGED <<pandas, token, argv, args, keyphrase, reply, body, roster,
                 df_in, df, report, support, pending, calls, scores, err>>

(***************************************************************************)
(* Spec: one run of main.                                                  *)
(***************************************************************************)
Init ==
  /\ pandas \in PandasVersions
  /\ token \in TokenStates
  /\ pc = "parsing_args"
  /\ argv \in MainArgvs
  /\ args = [keyphrase |-> None, date |-> None, ass_id |-> None]
  /\ keyphrase = <<>>
  /\ reply = NoReply
  /\ body = <<>>
  /\ roster = <<>>
  /\ df_in = EmptyTable
  /\ df = EmptyTable
  /\ report = <<>>
  /\ support = EmptyTable
  /\ pending = <<>>
  /\ calls = <<>>
  /\ scores = <<>>
  /\ err = "none"

Next ==
  \/ ParsingArgs
  \/ CanvasCourseInit
  \/ AttendanceFormInit
  \/ GetAttendance
  \/ FilterByDay
  \/ FilterByPassphrase
  \/ ConvertNumericCols
  \/ MeanReport
  \/ IdentifyAssistanceNeed
  \/ CanvasUpload
  \/ MarkAbsent
  \/ StartPresent
  \/ MarkPresent
  \/ ToCsv

Spec == Init /\ [][Next]_vars

(***************************************************************************)
(* SpecDay: filter_by_day on its own, over tables in any order whose       *)
(* timestamps lie around both ends of the window, are missing or have no   *)
(* parse.                                                                  *)
(***************************************************************************)
Idle ==
  /\ pandas \in PandasVersions
  /\ token = "valid"
  /\ argv = [keyphrase |-> None, date |-> None, ass_id |-> None]
  /\ reply = NoReply
  /\ body = <<>>
  /\ roster = <<>>
  /\ df_in = EmptyTable
  /\ report = <<>>
  /\ support = EmptyTable
  /\ pending = <<>>
  /\ calls = <<>>
  /\ scores = <<>>
  /\ err = "none"

DayTimes ==
  {Time(LectureDate.day, WindowStartSec - 1, 0),
   Time(LectureDate.day, WindowStartSec - 1, Sub - 1),
   Time(LectureDate.day, WindowStartSec, 0),
   Time(LectureDate.day, WindowStartSec + 1800, 0),
   Time(LectureDate.day, WindowEndSec, 0),
   Time(LectureDate.day, WindowEndSec, 1),
   Time(LectureDate.day, WindowEndSec, Sub - 1),
   Time(LectureDate.day, WindowEndSec + 1, 0),
   Time(LectureDate.day + 1, WindowStartSec, 0)}
\* a timestamp, a missing value, or a string that is no timestamp
DayCells == DayTimes \cup {NaN, Str(<<"n","/","a">>)}
DayTables ==
  {[cols |-> <<responseId, lastSubmittedTime>>,
    idx |-> [i \in 1..Len(ts) |-> i - 1],
    rows |-> [i \in 1..Len(ts) |-> <<Str(Rid(i)), ts[i]>>]]
     : ts \in SeqUpTo(DayCells, MaxRows)}

InitDay ==
  /\ pc = "filter_by_day"
  /\ df \in DayTables
  /\ \E d \in {OkDate(LectureDate.day), OkDate(LectureDate.day + 1), BadDate} :
       args = [keyphrase |-> None, date |-> d, ass_id |-> None]
  /\ keyphrase = <<>>
  /\ Idle

SpecDay == InitDay /\ [][FilterByDay]_vars

(***************************************************************************)
(* SpecSchema: get_attendance on its own, over replies whose responses     *)
(* answer the questions in any order, one of them twice, and over form     *)
(* bodies that have or lack each question.                                 *)
(***************************************************************************)
\* the value the response i gives as answer n to the question qid
Value(i, qid, n) == Str(<<"v", Digits[i + 1], qid[1], Digits[n + 1]>>)
\* what a response may answer: a question and the number of its values
AnswerLists ==
  {a \in SeqUpTo({<<QConcept, 1>>, <<QHelp, 1>>, <<QHelp, 2>>, <<QOld, 1>>}, 3) : \A i, j \in 1..Len(a) : a[i][1] = a[j][1] => i = j}
SchemaReplies ==
  {NoReply} \cup
  {[present |-> TRUE,
    list |-> [i \in 1..Len(as) |->
                Response(Rid(i), Time(LectureDate.day, WindowStartSec, 0), EmailA,
                         [m \in 1..Len(as[i]) |->
                            <<as[i][m][1],
                              [n \in 1..as[i][m][2] |-> Value(i, as[i][m][1], n)]>>])]]
     : as \in SeqUpTo(AnswerLists, MaxResponses)}
SchemaBodies ==
  {MainBody,
   <<[questionId |-> QConcept, title |-> ckey]>>,
   <<>>,
   <<[questionId |-> QOld, title |-> Speed], [questionId |-> QHelp, title |-> Help]>>}

InitSchema ==
  /\ pandas \in PandasVersions
  /\ token = "valid"
  /\ pc = "get_attendance"
  /\ argv = [keyphrase |-> None, date |-> None, ass_id |-> None]
  /\ args = argv
  /\ keyphrase = <<>>
  /\ reply \in SchemaReplies
  /\ body \in SchemaBodies
  /\ roster = <<>>
  /\ df_in = EmptyTable
  /\ df = EmptyTable
  /\ report = <<>>
  /\ support = EmptyTable
  /\ pending = <<>>
  /\ calls = <<>>
  /\ scores = <<>>
  /\ err = "none"

\* get_attendance() on the reply and the form body of the state
ApplyGetAttendance ==
  /\ pc = "get_attendance"
  /\ LET out == get_attendance(reply, body) IN
       IF out.err = "none"
       THEN df' = out.df /\ pc' = "filter_by_day" /\ UNCHANGED err
       ELSE Fail(out.err) /\ UNCHANGED df
  /\ calls' = calls \o get_attendance_calls(reply)
  /\ UNCHANGED <<pandas, token, argv, args, keyphrase, reply, body, roster,
                 df_in, report, support, pending, scores>>

SpecSchema == InitSchema /\ [][ApplyGetAttendance]_vars

(***************************************************************************)
(* SpecPass: filter_by_passphrase on its own.                              *)
(***************************************************************************)
Ten == <<"a","a","a","a","a","a","a","a","a","a">>
\* scores 70 against Ten
TenSeventy == <<"a","a","x","a","a","x","a","a","x","a","x">>
\* "gripes" scores 67 against Graphs, "Grass" 75
PassAnswers ==
  {Graphs, GraphsTyped, <<"G","R","A","P","H","S"," ">>, Trees,
   <<"g","r","i","p","e","s">>, <<"G","r","a","s","s">>, TenSeventy,
   <<" ">> \o TenSeventy, <<" ">>}
PassKeyphrases == {GraphsTyped, <<" ">> \o Ten}
PassTables ==
  {[cols |-> <<responseId, ckey>>,
    idx |-> [i \in 1..Len(as) |-> i - 1],
    rows |-> [i \in 1..Len(as) |-> <<Str(Rid(i)), Str(as[i])>>]]
     : as \in SeqUpTo(PassAnswers, MaxPassRows)}

InitPass ==
  /\ pc = "filter_by_passphrase"
  /\ df \in PassTables
  /\ \E kp \in PassKeyphrases :
       /\ args = [keyphrase |-> Str(kp), date |-> None, ass_id |-> None]
       /\ keyphrase = Normalize(kp)
  /\ Idle

SpecPass == InitPass /\ [][FilterByPassphrase]_vars

(***************************************************************************)
(* SpecAssist: convert_numeric_cols, the report and                        *)
(* identify_assistance_need, over tables with two rating columns and a     *)
(* time-spent column.                                                      *)
(***************************************************************************)
\* answers as typed: numbers below 2 in several spellings, 10, no answer
RatingCells ==
  {Str(<<"0","e","0">>), Str(<<" ","1">>), Str(<<"1",".","5">>),
   Str(<<"1","e","1">>), NaN}
\* 2, an answer that is no number, no answer
SpeedCells == {Str(<<"2",".","0">>), Str(<<"a","b","c">>), NaN}
AssistRows ==
  {<<h, s, t>> : h \in RatingCells, s \in SpeedCells, t \in {Str(<<"0">>), Str(<<"5">>)}}
\* "Help needed", "Speed of lecture", "hours spent", as titles of the form
AssistTables ==
  {[cols |-> <<respondentEmail,
              Help \o <<" ","n","e","e","d","e","d">>,
              Speed \o <<" ","o","f"," ","l","e","c","t","u","r","e">>,
              hours \o <<" ","s","p","e","n","t">> >>,
    idx |-> [i \in 1..Len(rs) |-> i - 1],
    rows |-> [i \in 1..Len(rs) |-> <<Str(Rid(i))>> \o rs[i]]]
     : rs \in SeqUpTo(AssistRows, MaxAssistRows)}

InitAssist ==
  /\ pc = "convert_numeric_cols"
  /\ df \in AssistTables
  /\ args = [keyphrase |-> None, date |-> None, ass_id |-> None]
  /\ keyphrase = <<>>
  /\ Idle

NextAssist == ConvertNumericCols \/ MeanReport \/ IdentifyAssistanceNeed

SpecAssist == InitAssist /\ [][NextAssist]_vars

(***************************************************************************)
(* Properties of filter_by_day, under SpecDay.                             *)
(***************************************************************************)
\* filter_by_day has returned
DayReturned == pc = "filter_by_passphrase"
\* the row k of table t and the row i of table u are the same response
SameResponse(t, k, u, i) == Cell(t, k, responseId) = Cell(u, i, responseId)
KeptByDay(i) == \E k \in 1..NRows(df) : SameResponse(df, k, df_in, i)
\* the position in the input of the row k of the result
InputPos(k) == CHOOSE i \in 1..NRows(df_in) : SameResponse(df, k, df_in, i)

\* S <= c <= E on the day of date, S = 19:00:00 and E = 20:00:00 to the instant
InClosedWindow(c, date) ==
  /\ IsTime(c)
  /\ c.day = date.day
  /\ WindowStartSec <= c.sec
  /\ (c.sec < WindowEndSec \/ (c.sec = WindowEndSec /\ c.tick = 0))

\* c1 is not later than c2
NotLater(c1, c2) ==
  \/ c1.day < c2.day
  \/ c1.day = c2.day /\ c1.sec < c2.sec
  \/ c1.day = c2.day /\ c1.sec = c2.sec /\ c1.tick <= c2.tick

\* C4: filter_by_day keeps a record if and only if its lastSubmittedTime t
\* satisfies S <= t <= E, both ends inclusive.
C4_KeptIffInClosedWindow ==
  DayReturned =>
    \A i \in 1..NRows(df_in) :
      KeptByDay(i) <=> InClosedWindow(Cell(df_in, i, lastSubmittedTime), args.date)

\* C7: a record whose lastSubmittedTime is missing or has no parse is left out
\* and never makes the run fail; the other records are filtered as usual.
C7_BadTimestampNotFatal ==
  (/\ pc # "filter_by_day"
   /\ args.date.k = "ok"
   /\ \E i \in 1..NRows(df_in) : ~IsTime(Cell(df_in, i, lastSubmittedTime)))
  => (/\ pc # "failed"
      /\ \A i \in 1..NRows(df_in) :
           ~IsTime(Cell(df_in, i, lastSubmittedTime)) => ~KeptByDay(i))

\* C9, as the specification states it: the records kept appear in the result
\* in the same relative order as in the input table.
C9_OriginalOrderKept ==
  DayReturned =>
    \A k1, k2 \in 1..NRows(df) : k1 < k2 => InputPos(k1) < InputPos(k2)

InputInTimeOrder ==
  \A i, j \in 1..NRows(df_in) :
    i < j => /\ IsTime(Cell(df_in, i, lastSubmittedTime))
             /\ IsTime(Cell(df_in, j, lastSubmittedTime))
             /\ NotLater(Cell(df_in, i, lastSubmittedTime),
                         Cell(df_in, j, lastSubmittedTime))

\* C9, amended: the records kept appear in the result in non-decreasing order
\* of lastSubmittedTime; the relative order of the input is kept when the
\* input is already in that order.
C9_SortedByTimestamp ==
  DayReturned =>
    /\ \A k1, k2 \in 1..NRows(df) :
         k1 < k2 => NotLater(Cell(df, k1, lastSubmittedTime),
                             Cell(df, k2, lastSubmittedTime))
    /\ InputInTimeOrder =>
         \A k1, k2 \in 1..NRows(df) : k1 < k2 => InputPos(k1) < InputPos(k2)

\* two records are kept and come out in the opposite order of the input
C9_Reordered ==
  /\ DayReturned
  /\ \E k1, k2 \in 1..NRows(df) : k1 < k2 /\ InputPos(k1) > InputPos(k2)

(***************************************************************************)
(* Properties of get_attendance, under SpecSchema.                         *)
(***************************************************************************)
MetaFields == {responseId, createTime, lastSubmittedTime, respondentEmail}
AnswerNumbers == {"0", "1"}
Titles == get_question_ids(body)
\* some response holds an answer to the question q
Referenced(q) ==
  \E i \in 1..Len(reply.list) : \E n \in AnswerNumbers :
     HasKey(reply.list[i], ValueKey(q, n))
\* the label that the field key of a response is to carry in the table
LabelOf(key) ==
  IF key \in MetaFields THEN key
  ELSE Titles[CHOOSE q \in DOMAIN Titles : \E n \in AnswerNumbers : key = ValueKey(q, n)]
\* the field keys of the responses that are to survive
Surviving(key) ==
  \/ key \in MetaFields
  \/ \E q \in DOMAIN Titles : \E n \in AnswerNumbers : key = ValueKey(q, n)
\* the column j of the table holds the values of the field key
HoldsField(j, key) ==
  /\ df.cols[j] = LabelOf(key)
  /\ \A i \in 1..Len(reply.list) :
       df.rows[i][j] = IF HasKey(reply.list[i], key) THEN Lookup(reply.list[i], key)
                       ELSE NaN
AllKeys == UNION {Range(Keys(reply.list[i])) : i \in 1..Len(reply.list)}

NormalisedTable ==
  /\ err = "none"
  /\ NRows(df) = Len(reply.list)
  /\ Range(df.cols) =
       MetaFields \cup {Titles[q] : q \in {x \in DOMAIN Titles : Referenced(x)}}
  /\ \A j \in 1..Len(df.cols) : \E key \in AllKeys : Surviving(key) /\ HoldsField(j, key)
  /\ \A key \in AllKeys : Surviving(key) => \E j \in 1..Len(df.cols) : HoldsField(j, key)

\* C5: for every question schema and every collection of raw submissions,
\* get_attendance yields a table whose columns are exactly the four metadata
\* fields and the titles of the referenced questions of the schema, each
\* column holding the values of the field it was derived from.
C5_ColumnsAreMetaAndTitles == pc # "get_attendance" => NormalisedTable

\* the same for a collection that is not empty (not a claim of the list; it
\* shows that the empty collection is the only case that fails)
SchemaHoldsWithResponses ==
  (pc # "get_attendance" /\ reply.list # <<>>) => NormalisedTable

(***************************************************************************)
(* Properties of filter_by_passphrase, under SpecPass.                     *)
(***************************************************************************)
PassReturned == pc = "convert_numeric_cols"
Answer(i) == Cell(df_in, i, ckey).s
KeptByPhrase(i) == \E k \in 1..NRows(df) : SameResponse(df, k, df_in, i)
\* the score of the answer of the input row i, both strings trimmed and
\* lower-cased
Score(i) ==
  partial_token_set_ratio(lower(strip(Answer(i))), lower(strip(args.keyphrase.s)))

\* a and b differ only in letter case and in leading or trailing whitespace
SameButCaseAndPadding(a, b) ==
  \E ia, ib \in 1..(Len(a) + 1) : \E ja, jb \in 0..Len(b) :
    /\ \A n \in 1..Len(a) : (n < ia \/ n >= ia + (jb - ja)) => a[n] \in Whitespace
    /\ \A n \in 1..Len(b) : (n <= ja \/ n > jb) => b[n] \in Whitespace
    /\ ja <= jb
    /\ ia + (jb - ja) - 1 <= Len(a)
    /\ \A n \in 1..(jb - ja) : LowerChar(a[ia + n - 1]) = LowerChar(b[ja + n])

\* C8: filter_by_passphrase keeps a record if and only if the score of its
\* trimmed, lower-cased answer against the trimmed, lower-cased keyphrase is
\* at least 70 (70 itself is kept); answers that differ only in letter case
\* or outer whitespace get the same score and the same verdict.
C8_KeptIffScoreAtLeastThreshold ==
  PassReturned =>
    /\ \A i \in 1..NRows(df_in) : KeptByPhrase(i) <=> Score(i) >= 70
    /\ \A i, j \in 1..NRows(df_in) :
         SameButCaseAndPadding(Answer(i), Answer(j)) =>
           /\ Score(i) = Score(j)
           /\ KeptByPhrase(i) <=> KeptByPhrase(j)

\* two different spellings of one answer, scoring exactly 70, are both kept
C8_SeventyKeptTwice ==
  /\ PassReturned
  /\ \E i, j \in 1..NRows(df_in) :
       /\ Answer(i) # Answer(j)
       /\ SameButCaseAndPadding(Answer(i), Answer(j))
       /\ Score(i) = 70
       /\ KeptByPhrase(i) /\ KeptByPhrase(j)

(***************************************************************************)
(* Properties of identify_assistance_need, under SpecAssist.               *)
(***************************************************************************)
AssistReturned == pc = "canvas_upload"
Flagged(i) ==
  \E k \in 1..NRows(support) :
     Cell(support, k, respondentEmail) = Cell(df_in, i, respondentEmail)
IsRatingLabel(l) == Contains(l, Help) \/ Contains(l, Understanding) \/ Contains(l, Speed)
\* the answers, as typed, that are numbers below 2
BelowTwoAsTyped ==
  {Str(<<"0">>), Str(<<"1">>), Str(<<"0","e","0">>), Str(<<" ","1">>),
   Str(<<"1",".","5">>)}

\* C10: identify_assistance_need returns exactly the records in which a rating
\* column holds a value below 2; a missing value never counts, and a
\* time-spent column never causes a flag.
C10_FlaggedIffRatingBelowTwo ==
  AssistReturned =>
    \A i \in 1..NRows(df_in) :
      Flagged(i) <=>
        \E j \in 1..Len(df_in.cols) :
           IsRatingLabel(df_in.cols[j]) /\ df_in.rows[i][j] \in BelowTwoAsTyped

\* one record is flagged for a rating of 1.5 beside a speed of 2.0; another,
\* with no rating that parses and 0 hours, is not
C10_FlaggedAndSpared ==
  /\ AssistReturned
  /\ \E i, j \in 1..NRows(df_in) :
       /\ Flagged(i) /\ df_in.rows[i][2] = Str(<<"1",".","5">>)
       /\ df_in.rows[i][3] = Str(<<"2",".","0">>)
       /\ ~Flagged(j)
       /\ df_in.rows[j][2] = NaN /\ df_in.rows[j][3] = Str(<<"a","b","c">>)
       /\ df_in.rows[j][4] = Str(<<"0">>)

(***************************************************************************)
(* Properties of a run of main, under Spec.                                *)
(***************************************************************************)
\* a call of set_score raised
GradebookRaised == pc = "failed" /\ err = "CanvasException"
\* canvas_upload is over: it returned, or a call of set_score raised
UploadOver == pc = "done" \/ GradebookRaised
ScoreCallsFor(login) == {k \in 1..Len(scores) : scores[k].login_id = login}
\* login is the respondentEmail of a validated record
Validated(login) ==
  \E i \in 1..NRows(df) : Cell(df, i, respondentEmail) = login
\* the call k of set_score was made on a row of the roster
OnRosterEntry(k) == scores[k].outcome \in SetScoreOutcomes

\* C1: one run of canvas_upload issues exactly one set_score call per roster
\* entry and none for an identity outside the roster, with score 1 when the
\* login_id equals the respondentEmail of a validated record and 0 otherwise.
C1_OneScorePerRosterEntry ==
  UploadOver =>
    /\ Len(scores) = Len(roster)
    /\ \A i \in 1..Len(roster) :
         /\ Cardinality(ScoreCallsFor(roster[i].login_id)) = 1
         /\ \A k \in ScoreCallsFor(roster[i].login_id) :
              scores[k].score = IF Validated(roster[i].login_id) THEN 1 ELSE 0
    /\ \A k \in 1..Len(scores) :
         \E i \in 1..Len(roster) : roster[i].login_id = scores[k].login_id

\* the same for the calls made on rows of the roster in a run in which no call
\* of the gradebook raises (not a claim of the list; it shows that C1 fails
\* through the abort of C2 and through the call on a row that apply makes up)
OneScorePerEntryWhenNoneRaises ==
  pc = "done" =>
    /\ Cardinality({k \in 1..Len(scores) : OnRosterEntry(k)}) = Len(roster)
    /\ \A i \in 1..Len(roster) :
         /\ Cardinality(ScoreCallsFor(roster[i].login_id)) = 1
         /\ \A k \in ScoreCallsFor(roster[i].login_id) :
              scores[k].score = IF Validated(roster[i].login_id) THEN 1 ELSE 0

\* C2: when the gradebook call of set_score raises for one roster entry, the
\* run still attempts the grade of every other roster entry.
C2_FailureDoesNotStopOthers ==
  (\E k \in 1..Len(scores) : scores[k].outcome \in {"get_submission", "edit"}) =>
    (pc \in {"done", "failed"} =>
       \A i \in 1..Len(roster) : \E k \in 1..Len(scores) : scores[k].id = roster[i].id)

\* the fields of a response of the reply
EmailOf(r) == Lookup(r, respondentEmail)
TimeOf(r) == Lookup(r, lastSubmittedTime)
ConceptOf(r) == Lookup(r, ValueKey(QConcept, "0")).s
HelpOf(r) == Lookup(r, ValueKey(QHelp, "0"))
\* the response is inside the lecture window and matches the keyphrase
Survives(r) ==
  /\ InClosedWindow(TimeOf(r), args.date)
  /\ partial_token_set_ratio(lower(strip(ConceptOf(r))), keyphrase) >= FUZZ_THRESHOLD
SurvivingHelp ==
  Pick([i \in 1..Len(reply.list) |-> to_numeric(HelpOf(reply.list[i]))],
       {i \in 1..Len(reply.list) : Survives(reply.list[i])})
ReportWritten ==
  pc \in {"identify_assistance_need", "canvas_upload", "absent", "present", "done"}

\* C3: a roster member is decided present only if a submission with their
\* identity lies inside the lecture window and scores at least the threshold;
\* a submission outside the window or below the threshold contributes to no
\* decision of 1 and to no mean of the report; a roster member without a
\* surviving submission is decided 0.
C3_PresentOnlyIfInWindowAndMatching ==
  /\ \A k \in 1..Len(scores) :
       (OnRosterEntry(k) /\ scores[k].score = 1) =>
         \E i \in 1..Len(reply.list) :
            EmailOf(reply.list[i]) = scores[k].login_id /\ Survives(reply.list[i])
  /\ ReportWritten =>
       \A m \in 1..Len(report) :
          report[m].col = Help =>
            /\ report[m].count = Len(SurvivingHelp)
            /\ report[m].sum = SumCells(SurvivingHelp)
  /\ pc = "done" =>
       \A i \in 1..Len(roster) :
          (~\E j \in 1..Len(reply.list) :
              EmailOf(reply.list[j]) = roster[i].login_id /\ Survives(reply.list[j]))
          => \E k \in 1..Len(scores) :
                scores[k].login_id = roster[i].login_id /\ scores[k].score = 0

\* the same with the window of the code, which runs to the last instant of the
\* second 20:00:00 (not a claim of the list; it shows that C3 fails only
\* through the window end of C4)
SurvivesSlice(r) ==
  /\ InSlice(ToDatetime(TimeOf(r)), args.date)
  /\ partial_token_set_ratio(lower(strip(ConceptOf(r))), keyphrase) >= FUZZ_THRESHOLD
PresentOnlyIfInSliceAndMatching ==
  \A k \in 1..Len(scores) :
     (OnRosterEntry(k) /\ scores[k].score = 1) =>
       \E i \in 1..Len(reply.list) :
          EmailOf(reply.list[i]) = scores[k].login_id /\ SurvivesSlice(reply.list[i])

\* a parameter of the run is missing or invalid
ConfigInvalid ==
  argv.keyphrase.k = "none" \/ argv.date.k # "ok" \/ argv.ass_id.k # "int"

\* the run ended with the exception that a missing or invalid parameter raises
ConfigErrorRaised ==
  /\ pc = "failed"
  /\ \/ err = "SystemExit"
     \/ err = "AttributeError" /\ argv.keyphrase.k = "none"
     \/ err = "InvalidSliceBound" /\ argv.date.k # "ok"
     \/ err = "TypeError" /\ argv.ass_id.k = "none"

\* C6: a run whose parameters are missing or invalid fails before any call to
\* the forms provider or to the gradebook provider is made.
C6_NoProviderCallBeforeConfigError ==
  (ConfigInvalid /\ ConfigErrorRaised) => calls = <<>>
====
